---------------------------- MODULE Spec2Model ----------------------------
(***************************************************************************)
(* Model of tracktable/Core/PropertyValue.cpp: the PropertyValueT variant, *)
(* the type-tag visitor (RetrieveUnderlyingType) and the interpolation     *)
(* visitor (InterpolateProperties) behind interpolate_property and         *)
(* extrapolate_property.                                                   *)
(*                                                                         *)
(* Numbers.  The interpolant and every double payload are dyadic rationals *)
(* of small magnitude, kept as integer numerators over TDen = 2^TBits.     *)
(* For such operands every intermediate of (1-t)*a + t*b and of delta*t is *)
(* exactly representable in binary64, so the arithmetic of the code and    *)
(* the rational arithmetic below coincide.  NaN and infinite interpolants  *)
(* are outside the model.                                                  *)
(*                                                                         *)
(* Build.  The int64_t overloads are compiled under two different macros   *)
(* (PROPERTY_VALUE_INCLUDES_INT for interpolation, line 62, and            *)
(* PROPERTY_VALUE_INCLUDES_INTEGER for the type tag, line 178).  The       *)
(* header that declares the variant is not among the sources; the integer  *)
(* feature is taken to be enabled in the builds that define both.          *)
(***************************************************************************)
EXTENDS Integers, FiniteSets, Sequences, TLC

VARIABLES
    defines,      \* preprocessor macros of the build
    first,        \* PropertyValueT const& first
    second,       \* PropertyValueT const& second
    t,            \* double t, as a numerator over TDen
    pc,           \* which public function has been called
    result,       \* what interpolate_property / extrapolate_property gave
    utype,        \* what property_underlying_type(first) gave
    isnull,       \* what is_property_null(first) gave
    typestr       \* what property_type_as_string(first) gave

vars == <<defines, first, second, t, pc, result, utype, isnull, typestr>>

---------------------------------------------------------------------------
(* Bounds *)

\* the interpolant and the double payloads have TBits fractional bits
TBits == 3

\* doubles range over 5*k for k in -1..MaxReal (so 0.0, 5.0, 10.0, 20.0 occur)
MaxReal == 4

\* timestamps range over T0 + 0..MaxTick microseconds, and T0 + 60 s
MaxTick == 3

\* integers range over -1..MaxInt
MaxInt == 2

TDen == 2 ^ TBits

\* interpolants from -0.5 to 1.5 in steps of 1/TDen
TValues == (0 - TDen \div 2) .. (TDen + TDen \div 2)

---------------------------------------------------------------------------
(* The data model *)

\* enum PropertyUnderlyingType, as used by the switch of property_type_as_string
PropertyUnderlyingType ==
    {"TYPE_UNKNOWN", "TYPE_REAL", "TYPE_STRING", "TYPE_TIMESTAMP",
     "TYPE_INTEGER", "TYPE_NULL"}

\* the two macros that gate the int64_t overloads
Macros == {"PROPERTY_VALUE_INCLUDES_INT", "PROPERTY_VALUE_INCLUDES_INTEGER"}

\* whether the variant has the int64_t alternative in this build
IntegerEnabled == Macros \subseteq defines

\* PropertyValueT: a variant with exactly one live alternative, named by alt.
\* The fields of the other alternatives are held at a fixed default.
PropertyValueT(alt, real, int, str, time, expected) ==
    [alt |-> alt, real |-> real, int |-> int, str |-> str, time |-> time,
     ExpectedType |-> expected]

\* PropertyValueT(NullValue const&)
FromNullValue(expected) ==
    PropertyValueT("NullValue", 0, 0, "", 0, expected)

\* PropertyValueT(double): x is the numerator over TDen
FromDouble(x) ==
    PropertyValueT("double", x, 0, "", 0, "TYPE_UNKNOWN")

\* PropertyValueT(int64_t)
FromInt64(i) ==
    PropertyValueT("int64_t", 0, i, "", 0, "TYPE_UNKNOWN")

\* PropertyValueT(string_type const&)
FromString(s) ==
    PropertyValueT("string_type", 0, 0, s, 0, "TYPE_UNKNOWN")

\* PropertyValueT(Timestamp const&): us is microseconds since T0
FromTimestamp(us) ==
    PropertyValueT("Timestamp", 0, 0, "", us, "TYPE_UNKNOWN")

SixtySeconds == 60 * 1000000

RealInputs == {FromDouble(5 * k * TDen) : k \in -1 .. MaxReal}
StringInputs == {FromString(s) : s \in {"", "A", "B"}}
TimestampInputs == {FromTimestamp(us) : us \in (0 .. MaxTick) \cup {SixtySeconds}}
IntegerInputs == {FromInt64(i) : i \in -1 .. MaxInt}
NullInputs == {FromNullValue(e) : e \in PropertyUnderlyingType}

\* every value the variant of a build can hold, within the bounds
Values ==
    NullInputs \cup RealInputs \cup StringInputs \cup TimestampInputs
        \cup (IF IntegerEnabled THEN IntegerInputs ELSE {})

---------------------------------------------------------------------------
(* Outcomes of a call *)

Returned(v) == [status |-> "returned", fault |-> "none", value |-> v]

\* boost::get<T>(variant const&) on another alternative throws boost::bad_get
BadGet == [status |-> "fault", fault |-> "bad_get",
           value |-> FromNullValue("TYPE_UNKNOWN")]

NotCalled == [status |-> "none", fault |-> "none",
              value |-> FromNullValue("TYPE_UNKNOWN")]

---------------------------------------------------------------------------
(* Type-tag visitor *)

RetrieveUnderlyingType_NullKeepsExpected(pv) ==
    CASE pv.alt = "double" -> "TYPE_REAL"
      [] pv.alt = "string_type" -> "TYPE_STRING"
      [] pv.alt = "Timestamp" -> "TYPE_TIMESTAMP"
      [] pv.alt = "int64_t" -> "TYPE_INTEGER"
      [] pv.alt = "NullValue" -> pv.ExpectedType

\* class RetrieveUnderlyingType applied to pv: value starts as TYPE_UNKNOWN
\* and the overload selected by the live alternative overwrites it.  Without
\* the int64_t overload an int64_t operand converts to the double overload.
RetrieveUnderlyingType(pv) ==
    CASE pv.alt = "double" -> "TYPE_REAL"
      [] pv.alt = "string_type" -> "TYPE_STRING"
      [] pv.alt = "Timestamp" -> "TYPE_TIMESTAMP"
      [] pv.alt = "int64_t" ->
            IF "PROPERTY_VALUE_INCLUDES_INTEGER" \in defines
            THEN "TYPE_INTEGER" ELSE "TYPE_REAL"
      [] pv.alt = "NullValue" -> "TYPE_NULL"
      [] OTHER -> "TYPE_UNKNOWN"

property_underlying_type(pv) == RetrieveUnderlyingType(pv)

is_property_null(value) == property_underlying_type(value) = "TYPE_NULL"

property_type_as_string_NoNullCase(p) ==
    LET u == property_underlying_type(p) IN
    CASE u = "TYPE_UNKNOWN" -> "unknown"
      [] u = "TYPE_REAL" -> "real"
      [] u = "TYPE_STRING" -> "string"
      [] u = "TYPE_TIMESTAMP" -> "timestamp"
      [] u = "TYPE_INTEGER" -> "integer"
      [] OTHER -> "unsupported"

property_type_as_string(p) ==
    LET u == property_underlying_type(p) IN
    CASE u = "TYPE_UNKNOWN" -> "unknown"
      [] u = "TYPE_REAL" -> "real"
      [] u = "TYPE_STRING" -> "string"
      [] u = "TYPE_TIMESTAMP" -> "timestamp"
      [] u = "TYPE_INTEGER" -> "integer"
      [] u = "TYPE_NULL" -> "null"
      [] OTHER -> "unsupported"

---------------------------------------------------------------------------
(* Interpolation visitor *)

\* interpolant < 0.5
LessThanHalf(interpolant) == 2 * interpolant < TDen

\* static_cast<int64_t>(n / d) for d > 0: truncation toward zero
Truncate(n, d) == IF n >= 0 THEN n \div d ELSE 0 - ((0 - n) \div d)

\* (1 - t) * value1 + t * value2 on numerators over TDen.  The inputs are
\* whole numbers (multiples of TDen), so the division is exact.
Blend(value1, value2, interpolant) ==
    ((TDen - interpolant) * value1 + interpolant * value2) \div TDen

Visit_NullValue_StaysNull(value1, SecondValue, interpolant) ==
    IF LessThanHalf(interpolant) \/ SecondValue.alt # "NullValue"
    THEN Returned(FromNullValue(value1))
    ELSE Returned(SecondValue)

\* operator()(NullValue const& value1)
Visit_NullValue(value1, SecondValue, interpolant) ==
    IF LessThanHalf(interpolant)
    THEN Returned(FromNullValue(value1))
    ELSE Returned(SecondValue)

Visit_double_Swapped(value1, SecondValue, interpolant) ==
    IF SecondValue.alt # "double"
    THEN BadGet
    ELSE Returned(FromDouble(Blend(SecondValue.real, value1, interpolant)))

\* operator()(double value1)
Visit_double(value1, SecondValue, interpolant) ==
    IF SecondValue.alt # "double"
    THEN BadGet
    ELSE Returned(FromDouble(Blend(value1, SecondValue.real, interpolant)))

Visit_int64_t_Linear(value1, SecondValue, interpolant) ==
    IF is_property_null(SecondValue)
    THEN (IF LessThanHalf(interpolant)
          THEN Returned(FromInt64(value1)) ELSE Returned(SecondValue))
    ELSE IF SecondValue.alt # "int64_t"
    THEN BadGet
    ELSE Returned(FromInt64(Truncate(
             (TDen - interpolant) * value1 + interpolant * SecondValue.int,
             TDen)))

\* operator()(int64_t value1):
\* static_cast<int64_t>((1-t)*value1 + (t + value2))
Visit_int64_t(value1, SecondValue, interpolant) ==
    IF is_property_null(SecondValue)
    THEN (IF LessThanHalf(interpolant)
          THEN Returned(FromInt64(value1)) ELSE Returned(SecondValue))
    ELSE IF SecondValue.alt # "int64_t"
    THEN BadGet
    ELSE Returned(FromInt64(Truncate(
             (TDen - interpolant) * value1 + interpolant + TDen * SecondValue.int,
             TDen)))

Visit_string_type_Unchecked(value1, SecondValue, interpolant) ==
    IF LessThanHalf(interpolant)
    THEN Returned(FromString(value1))
    ELSE Returned(SecondValue)

Visit_string_type_SecondAboveHalf(value1, SecondValue, interpolant) ==
    IF 2 * interpolant <= TDen
    THEN Returned(FromString(value1))
    ELSE Returned(SecondValue)

\* operator()(string_type const& value1)
Visit_string_type(value1, SecondValue, interpolant) ==
    IF is_property_null(SecondValue)
    THEN (IF LessThanHalf(interpolant)
          THEN Returned(FromString(value1)) ELSE Returned(SecondValue))
    ELSE IF SecondValue.alt # "string_type"
    THEN BadGet
    ELSE IF LessThanHalf(interpolant)
    THEN Returned(FromString(value1))
    ELSE Returned(FromString(SecondValue.str))

Visit_Timestamp_Floor(value1, SecondValue, interpolant) ==
    IF is_property_null(SecondValue)
    THEN (IF LessThanHalf(interpolant)
          THEN Returned(FromTimestamp(value1)) ELSE Returned(SecondValue))
    ELSE IF SecondValue.alt # "Timestamp"
    THEN BadGet
    ELSE LET delta_t == SecondValue.time - value1
             microseconds == (delta_t * interpolant) \div TDen
         IN  Returned(FromTimestamp(value1 + microseconds))

Visit_Timestamp_RoundUp(value1, SecondValue, interpolant) ==
    IF is_property_null(SecondValue)
    THEN (IF LessThanHalf(interpolant)
          THEN Returned(FromTimestamp(value1)) ELSE Returned(SecondValue))
    ELSE IF SecondValue.alt # "Timestamp"
    THEN BadGet
    ELSE LET delta_t == SecondValue.time - value1
             microseconds == 0 - ((0 - delta_t * interpolant) \div TDen)
         IN  Returned(FromTimestamp(value1 + microseconds))

Visit_Timestamp_ReturnsOffset(value1, SecondValue, interpolant) ==
    IF is_property_null(SecondValue)
    THEN (IF LessThanHalf(interpolant)
          THEN Returned(FromTimestamp(value1)) ELSE Returned(SecondValue))
    ELSE IF SecondValue.alt # "Timestamp"
    THEN BadGet
    ELSE LET delta_t == SecondValue.time - value1
             microseconds == Truncate(delta_t * interpolant, TDen)
         IN  Returned(FromDouble((value1 + microseconds) * TDen))

\* operator()(Timestamp const& value1)
Visit_Timestamp(value1, SecondValue, interpolant) ==
    IF is_property_null(SecondValue)
    THEN (IF LessThanHalf(interpolant)
          THEN Returned(FromTimestamp(value1)) ELSE Returned(SecondValue))
    ELSE IF SecondValue.alt # "Timestamp"
    THEN BadGet
    ELSE LET delta_t == SecondValue.time - value1
             microseconds == Truncate(delta_t * interpolant, TDen)
         IN  Returned(FromTimestamp(value1 + microseconds))

\* boost::apply_visitor(calculator, first): the overload of first's live
\* alternative.  Without the int64_t overload an int64_t operand converts to
\* the double overload.
InterpolateProperties(value, SecondValue, interpolant) ==
    CASE value.alt = "NullValue" ->
            Visit_NullValue(value.ExpectedType, SecondValue, interpolant)
      [] value.alt = "double" ->
            Visit_double(value.real, SecondValue, interpolant)
      [] value.alt = "int64_t" ->
            IF "PROPERTY_VALUE_INCLUDES_INT" \in defines
            THEN Visit_int64_t(value.int, SecondValue, interpolant)
            ELSE Visit_double(value.int * TDen, SecondValue, interpolant)
      [] value.alt = "string_type" ->
            Visit_string_type(value.str, SecondValue, interpolant)
      [] value.alt = "Timestamp" ->
            Visit_Timestamp(value.time, SecondValue, interpolant)

interpolate_property_NoShortcut(a, b, x) == InterpolateProperties(a, b, x)

interpolate_property(a, b, x) ==
    IF x <= 0 THEN Returned(a)
    ELSE IF x >= TDen THEN Returned(b)
    ELSE InterpolateProperties(a, b, x)

extrapolate_property_Clamped(a, b, x) == interpolate_property(a, b, x)

extrapolate_property(a, b, x) == InterpolateProperties(a, b, x)

---------------------------------------------------------------------------
(* The calls *)

Init ==
    /\ defines \in SUBSET Macros
    /\ first \in Values
    /\ second \in Values
    /\ t \in TValues
    /\ pc = "ready"
    /\ result = NotCalled
    /\ utype = "none"
    /\ isnull = "none"
    /\ typestr = "none"

CallInterpolate ==
    /\ pc = "ready"
    /\ pc' = "interpolate_property"
    /\ result' = interpolate_property(first, second, t)
    /\ UNCHANGED <<defines, first, second, t, utype, isnull, typestr>>

CallExtrapolate ==
    /\ pc = "ready"
    /\ pc' = "extrapolate_property"
    /\ result' = extrapolate_property(first, second, t)
    /\ UNCHANGED <<defines, first, second, t, utype, isnull, typestr>>

CallUnderlyingType ==
    /\ pc = "ready"
    /\ pc' = "property_underlying_type"
    /\ utype' = property_underlying_type(first)
    /\ UNCHANGED <<defines, first, second, t, result, isnull, typestr>>

CallIsNull ==
    /\ pc = "ready"
    /\ pc' = "is_property_null"
    /\ isnull' = (IF is_property_null(first) THEN "true" ELSE "false")
    /\ UNCHANGED <<defines, first, second, t, result, utype, typestr>>

CallTypeAsString ==
    /\ pc = "ready"
    /\ pc' = "property_type_as_string"
    /\ typestr' = property_type_as_string(first)
    /\ UNCHANGED <<defines, first, second, t, result, utype, isnull>>

Next ==
    \/ CallInterpolate
    \/ CallExtrapolate
    \/ CallUnderlyingType
    \/ CallIsNull
    \/ CallTypeAsString

Spec == Init /\ [][Next]_vars

---------------------------------------------------------------------------
(* Properties *)

Interpolated == pc = "interpolate_property"
Extrapolated == pc = "extrapolate_property"

\* 0 < t < 1
Inside == 0 < t /\ t < TDen

\* the per-tag rule of the interpolation visitor has been applied
PerTagRuleReached == (Interpolated /\ Inside) \/ Extrapolated

\* the snap rule: first below the midpoint, second from the midpoint on
Snapped == result = Returned(IF 2 * t < TDen THEN first ELSE second)

BothAre(alt) == first.alt = alt /\ second.alt = alt

\* C1: interpolate_property with a Real first, a TypedNull second and
\* 0 < t < 1 snaps (first below 0.5, else the null) and does not fault.
C1_RealNullSnaps ==
    (Interpolated /\ Inside /\ first.alt = "double" /\ second.alt = "NullValue")
        => Snapped

\* C2, as stated: for Timestamps t1 < t2, down to t2 = t1 + 1 microsecond,
\* interpolating at 0.5 gives r with t1 < r < t2 strictly, and interpolating
\* at 1.0 gives a Timestamp within 1 microsecond of t2.
C2_StrictlyBetween ==
    (Interpolated /\ BothAre("Timestamp") /\ first.time < second.time)
        => /\ (2 * t = TDen) =>
                /\ result.status = "returned"
                /\ result.value.alt = "Timestamp"
                /\ first.time < result.value.time
                /\ result.value.time < second.time
           /\ (t = TDen) =>
                /\ result.status = "returned"
                /\ result.value.alt = "Timestamp"
                /\ result.value.time - second.time \in -1 .. 1

\* C2, amended: for Timestamps t1 < t2, interpolating at 0.5 gives r with
\* t1 <= r < t2; r is strictly after t1 when t2 - t1 is at least 2
\* microseconds and r = t1 when t2 = t1 + 1 microsecond.  Interpolating at
\* 1.0 gives t2 itself.
C2_BetweenAtResolution ==
    (Interpolated /\ BothAre("Timestamp") /\ first.time < second.time)
        => /\ (2 * t = TDen) =>
                /\ result.status = "returned"
                /\ result.value.alt = "Timestamp"
                /\ first.time <= result.value.time
                /\ result.value.time < second.time
                /\ (second.time - first.time >= 2)
                      => first.time < result.value.time
                /\ (second.time - first.time = 1)
                      => result.value.time = first.time
           /\ (t = TDen) => result = Returned(second)

C2_Witness ==
    /\ Interpolated
    /\ BothAre("Timestamp")
    /\ second.time = first.time + 1
    /\ 2 * t = TDen
    /\ result = Returned(first)

\* C3: interpolate_property returns first unchanged when t <= 0 and second
\* unchanged when t >= 1, whatever the two values hold, without a fault.
C3_BoundaryShortcut ==
    Interpolated
        => /\ (t <= 0) => result = Returned(first)
           /\ (t >= TDen) => result = Returned(second)

C3_Witness ==
    /\ Interpolated
    /\ t > TDen
    /\ first.alt = "double"
    /\ second.alt = "string_type"
    /\ result = Returned(second)

\* C4: when first and second hold different non-null alternatives and the
\* per-tag rule is reached, the call ends in a type-mismatch fault and
\* returns no value.
C4_MismatchFaults ==
    (/\ PerTagRuleReached
     /\ first.alt # second.alt
     /\ first.alt # "NullValue"
     /\ second.alt # "NullValue")
        => result = BadGet

C4_Witness ==
    /\ Extrapolated
    /\ first.alt = "string_type"
    /\ second.alt = "double"
    /\ 2 * t >= TDen
    /\ result.status = "fault"

\* C5: when first holds a TypedNull the per-tag rule returns first if
\* t < 0.5 and second verbatim otherwise, whatever second holds, without a
\* fault; e.g. a null and Real(5.0) give Real(5.0) above the midpoint.
C5_NullFirstSnaps ==
    (PerTagRuleReached /\ first.alt = "NullValue") => Snapped

C5_Witness ==
    /\ Interpolated
    /\ first = FromNullValue("TYPE_REAL")
    /\ second = FromDouble(5 * TDen)
    /\ t = TDen - 1
    /\ result = Returned(FromDouble(5 * TDen))

\* C6: with a String first and a String or TypedNull second and 0 < t < 1,
\* interpolate_property returns exactly first if t < 0.5 and exactly second
\* if t >= 0.5 (second at t = 0.5).
C6_StringSnaps ==
    (/\ Interpolated
     /\ Inside
     /\ first.alt = "string_type"
     /\ second.alt \in {"string_type", "NullValue"})
        => Snapped

C6_Witness ==
    /\ Interpolated
    /\ first = FromString("A")
    /\ second = FromString("B")
    /\ 2 * t = TDen
    /\ result = Returned(FromString("B"))

\* C7: with two Timestamps and 0 < t < 1, interpolate_property returns first
\* plus (second - first) * t microseconds truncated toward zero, so the
\* result moves backwards when second is earlier; T0 and T0 + 60 s give
\* T0 + 30 s at 0.5.
C7_TimestampTruncates ==
    (Interpolated /\ Inside /\ BothAre("Timestamp"))
        => LET delta == second.time - first.time
               moved == result.value.time - first.time
           IN  /\ result.status = "returned"
               /\ result.value = FromTimestamp(result.value.time)
               /\ (delta >= 0) =>
                     /\ 0 <= moved
                     /\ moved * TDen <= delta * t
                     /\ delta * t < (moved + 1) * TDen
               /\ (delta <= 0) =>
                     /\ moved <= 0
                     /\ delta * t <= moved * TDen
                     /\ (moved - 1) * TDen < delta * t
               /\ (first.time = 0 /\ second.time = SixtySeconds /\ 2 * t = TDen)
                     => result.value.time = 30 * 1000000

C7_Witness ==
    /\ Interpolated
    /\ first = FromTimestamp(3)
    /\ second = FromTimestamp(0)
    /\ 2 * t = TDen
    /\ result = Returned(FromTimestamp(2))

\* C8: with two Reals a and b and 0 < t < 1, interpolate_property returns
\* Real((1-t)*a + t*b); at 0.5 that is (a+b)/2, and Real(10.0), Real(20.0)
\* at 0.25 give Real(12.5).
C8_RealBlend ==
    (Interpolated /\ Inside /\ BothAre("double"))
        => /\ result.status = "returned"
           /\ result.value = FromDouble(result.value.real)
           /\ result.value.real * TDen = (TDen - t) * first.real + t * second.real
           /\ (2 * t = TDen) => 2 * result.value.real = first.real + second.real
           /\ (first.real = 10 * TDen /\ second.real = 20 * TDen /\ 4 * t = TDen)
                 => 2 * result.value.real = 25 * TDen

C8_Witness ==
    /\ Interpolated
    /\ first = FromDouble(10 * TDen)
    /\ second = FromDouble(20 * TDen)
    /\ 4 * t = TDen
    /\ 2 * result.value.real = 25 * TDen

\* C9: extrapolate_property applies the per-tag rules for every t, with no
\* boundary shortcut: two Reals give (1-t)*a + t*b also for t <= 0 and
\* t >= 1 (Real(0.0), Real(10.0) at 1.5 give Real(15.0)); a String first
\* (with a String or null second) and a TypedNull first are snapped at 0.5
\* for every t.
C9_ExtrapolateNoShortcut ==
    Extrapolated
        => /\ BothAre("double") =>
                /\ result.status = "returned"
                /\ result.value = FromDouble(result.value.real)
                /\ result.value.real * TDen
                      = (TDen - t) * first.real + t * second.real
                /\ (first.real = 0 /\ second.real = 10 * TDen /\ 2 * t = 3 * TDen)
                      => result.value.real = 15 * TDen
           /\ (first.alt = "string_type"
                 /\ second.alt \in {"string_type", "NullValue"}) => Snapped
           /\ (first.alt = "NullValue") => Snapped

C9_Witness ==
    /\ Extrapolated
    /\ first = FromDouble(0)
    /\ second = FromDouble(10 * TDen)
    /\ 2 * t = 3 * TDen
    /\ result = Returned(FromDouble(15 * TDen))

\* C10: property_underlying_type gives the tag of the live alternative
\* (Real, String, Timestamp, Integer; Null for a TypedNull whatever its
\* ExpectedType) and never Unknown, and is_property_null is true exactly
\* for a TypedNull.
C10_UnderlyingType ==
    /\ (pc = "property_underlying_type") =>
          /\ utype # "TYPE_UNKNOWN"
          /\ (first.alt = "double") => utype = "TYPE_REAL"
          /\ (first.alt = "string_type") => utype = "TYPE_STRING"
          /\ (first.alt = "Timestamp") => utype = "TYPE_TIMESTAMP"
          /\ (first.alt = "int64_t") => utype = "TYPE_INTEGER"
          /\ (first.alt = "NullValue") => utype = "TYPE_NULL"
    /\ (pc = "is_property_null") =>
          (isnull = "true" <=> first.alt = "NullValue")

C10_Witness ==
    /\ pc = "property_underlying_type"
    /\ first = FromNullValue("TYPE_REAL")
    /\ utype = "TYPE_NULL"
\* C11: property_type_as_string gives the exact literal of the value's tag
\* ("real", "string", "timestamp", "integer", and "null" for a TypedNull of
\* any ExpectedType); the "unsupported" default is never taken.
C11_TypeAsString ==
    (pc = "property_type_as_string") =>
        /\ typestr # "unsupported"
        /\ (first.alt = "double") => typestr = "real"
        /\ (first.alt = "string_type") => typestr = "string"
        /\ (first.alt = "Timestamp") => typestr = "timestamp"
        /\ (first.alt = "int64_t") => typestr = "integer"
        /\ (first.alt = "NullValue") => typestr = "null"

C11_Witness ==
    /\ pc = "property_type_as_string"
    /\ first = FromNullValue("TYPE_STRING")
    /\ typestr = "null"
C13_ResultTagFromInputs ==
    (Interpolated \/ Extrapolated)
        => /\ (result.status = "returned") =>
                /\ result.value.alt \in {first.alt, second.alt}
                /\ (result.value.alt = "NullValue") =>
                      (first.alt = "NullValue" \/ second.alt = "NullValue")
           /\ (first.alt = second.alt /\ first.alt # "NullValue") =>
                /\ result.status = "returned"
                /\ result.value.alt = first.alt

C13_Witness ==
    /\ Extrapolated
    /\ BothAre("Timestamp")
    /\ first.time # second.time
    /\ t > TDen
    /\ result.status = "returned"
    /\ result.value.alt = "Timestamp"
    /\ result.value \notin {first, second}

=============================================================================
